---- MODULE Spec2Model ----
(***************************************************************************)
(* A model of the F1 race-prediction pipeline: the reference tables        *)
(* (model/utils.py), the weather resolver (model/weather.py), the feature  *)
(* builder (model/feature_engineering.py), the formatter, validator and    *)
(* writer (model/predict.py), the batch driver (run_prediction.py), the   *)
(* lap extraction (model/collect_data.py) and the serving layer's reader  *)
(* (api/main.py).                                                          *)
(*                                                                         *)
(* Numbers.  A float is modelled as an exact fixed-point integer:          *)
(*   - a time is a count of ticks of 1e-7 s  (90.0 s = 900000000),         *)
(*   - a wet-performance factor is a count of millionths (0.975196 =       *)
(*     975196), so that time * factor is exact for whole seconds,          *)
(*   - a probability is a count of hundredths (0.75 = 75),                 *)
(*   - a temperature is whole degrees Celsius.                             *)
(* A cell that may hold None/NaN is a tagged value, see Num and None.      *)
(***************************************************************************)
EXTENDS Integers, Sequences, FiniteSets, TLC

VARIABLES
    \* adjust_qualifying_time_for_weather called on its own
    adj_pc, adj_q, adj_p, adj_f, adj_out,
    \* get_weather_forecast, followed by an adjustment with a configured threshold
    w_pc, w_api_key, w_env_key, w_forecast_time, w_reply, w_result, w_raised,
    w_q, w_f, w_threshold, w_adjusted,
    \* format_predictions_for_json and save_predictions_json: the frame(s)
    \* formatted, the report(s), the validator's answer, the file system
    \* api/main.py load_prediction: what the serving layer answers
    r_pc, r_origin, r_frame, r_frame2, r_report, r_report2, r_validated,
    fs_dir, fs_file, api_response,
    \* run_prediction.py main: where it is, how it ended, the race
    \* configuration, the drivers of the historical session, the frame
    \* qualifying_2025, the weather, the feature matrix X and the index of y
    m_pc, m_exit, cfg_exists, cfg_qualifying, cfg_features, m_history,
    m_frame, m_rain, m_temp, m_X, m_y,
    \* normalize_driver_names called on its own: the frame, the result, the
    \* exception
    n_pc, n_frame, n_out, n_raised,
    \* generate_predictions: X, feature_names, use_imputation and the matrix
    \* handed to model.predict (or the exception raised on the way)
    g_pc, g_X, g_feature_names, g_use_imputation, g_matrix, g_raised,
    \* create_feature_matrix: the frame, the feature list, the matrix and the
    \* matrix of the matrix
    x_pc, x_frame, x_features, x_X, x_X2,
    \* extract_lap_times: session.laps and the table returned
    l_pc, l_laps, l_out,
    \* the name and code tables: a key, its image, and the image of that
    t_pc, t_key, t_image, t_back

adjvars == <<adj_pc, adj_q, adj_p, adj_f, adj_out>>
wvars == <<w_pc, w_api_key, w_env_key, w_forecast_time, w_reply, w_result,
           w_raised, w_q, w_f, w_threshold, w_adjusted>>
rvars == <<r_pc, r_origin, r_frame, r_frame2, r_report, r_report2,
           r_validated, fs_dir, fs_file, api_response>>
mvars == <<m_pc, m_exit, cfg_exists, cfg_qualifying, cfg_features, m_history,
           m_frame, m_rain, m_temp, m_X, m_y>>
nvars == <<n_pc, n_frame, n_out, n_raised>>
gvars == <<g_pc, g_X, g_feature_names, g_use_imputation, g_matrix, g_raised>>
xvars == <<x_pc, x_frame, x_features, x_X, x_X2>>
lvars == <<l_pc, l_laps, l_out>>
tvars == <<t_pc, t_key, t_image, t_back>>
\* the variables of the calls of single functions
fvars == <<nvars, gvars, xvars, lvars, tvars>>
vars == <<adjvars, wvars, rvars, mvars, fvars>>

----------------------------------------------------------------------------
\* Fixed-point arithmetic

\* one, as a factor: the number of millionths in 1.0
Scale == 1000 * 1000

\* n whole seconds as a time in ticks
Sec(n) == n * 10 * Scale

\* time * factor, exact when the time is a whole number of seconds
FMul(t, f) == (t \div Scale) * f + ((t % Scale) * f) \div Scale

\* tagged cell values: a number, or Python's None / a NaN
Num(n) == [kind |-> "num", v |-> n]
None == [kind |-> "none", v |-> 0]
IsNum(x) == x.kind = "num"

----------------------------------------------------------------------------
\* Reference tables (model/utils.py)

\* DRIVER_MAPPING, in the order of the dict literal (the u-umlaut of
\* "Nico Hulkenberg" is written as a plain u)
DRIVER_MAPPING ==
    << <<"Lando Norris", "NOR">>, <<"Oscar Piastri", "PIA">>,
       <<"Max Verstappen", "VER">>, <<"George Russell", "RUS">>,
       <<"Yuki Tsunoda", "TSU">>, <<"Alexander Albon", "ALB">>,
       <<"Charles Leclerc", "LEC">>, <<"Lewis Hamilton", "HAM">>,
       <<"Pierre Gasly", "GAS">>, <<"Carlos Sainz", "SAI">>,
       <<"Carlos Sainz Jr.", "SAI">>, <<"Lance Stroll", "STR">>,
       <<"Fernando Alonso", "ALO">>, <<"Esteban Ocon", "OCO">>,
       <<"Nico Hulkenberg", "HUL">>, <<"Isack Hadjar", "HAD">>,
       <<"Andrea Kimi Antonelli", "ANT">>, <<"Oliver Bearman", "BEA">>,
       <<"Jack Doohan", "DOO">>, <<"Gabriel Bortoleto", "BOR">>,
       <<"Liam Lawson", "LAW">> >>

\* the absent result of dict.get
NoValue == "<None>"

\* dict.get over a list of key/value pairs built in order: the last pair
\* with the key wins, NoValue when there is none
RECURSIVE PairsGet(_, _, _)
PairsGet(pairs, key, default) ==
    IF pairs = <<>> THEN default
    ELSE LET last == pairs[Len(pairs)]
         IN  IF last[1] = key THEN last[2]
             ELSE PairsGet(SubSeq(pairs, 1, Len(pairs) - 1), key, default)

\* the reverse table with the first name of a code kept, not the last
DRIVER_CODE_TO_NAME_first_wins ==
    [i \in 1..Len(DRIVER_MAPPING) |->
        <<DRIVER_MAPPING[Len(DRIVER_MAPPING) + 1 - i][2],
          DRIVER_MAPPING[Len(DRIVER_MAPPING) + 1 - i][1]>>]

\* DRIVER_CODE_TO_NAME = {v: k for k, v in DRIVER_MAPPING.items()}
DRIVER_CODE_TO_NAME ==
    [i \in 1..Len(DRIVER_MAPPING) |->
        <<DRIVER_MAPPING[i][2], DRIVER_MAPPING[i][1]>>]

DRIVER_TO_TEAM ==
    << <<"VER", "Red Bull">>, <<"NOR", "McLaren">>, <<"PIA", "McLaren">>,
       <<"LEC", "Ferrari">>, <<"RUS", "Mercedes">>, <<"HAM", "Mercedes">>,
       <<"GAS", "Alpine">>, <<"ALO", "Aston Martin">>,
       <<"TSU", "Racing Bulls">>, <<"SAI", "Ferrari">>,
       <<"HUL", "Kick Sauber">>, <<"OCO", "Alpine">>,
       <<"STR", "Aston Martin">>, <<"ALB", "Williams">>,
       <<"BEA", "Ferrari">>, <<"DOO", "Alpine">>, <<"BOR", "Racing Bulls">>,
       <<"LAW", "Racing Bulls">>, <<"HAD", "Red Bull">>,
       <<"ANT", "Mercedes">> >>

\* WET_PERFORMANCE_FACTORS, in millionths
WET_PERFORMANCE_FACTORS ==
    << <<"VER", 975196>>, <<"HAM", 976464>>, <<"LEC", 975862>>,
       <<"NOR", 978179>>, <<"ALO", 972655>>, <<"RUS", 968678>>,
       <<"SAI", 978754>>, <<"TSU", 996338>>, <<"OCO", 981810>>,
       <<"GAS", 978832>>, <<"STR", 979857>>, <<"PIA", 978000>>,
       <<"ALB", 980000>> >>

\* the default of get_wet_performance_factor, 0.98
DEFAULT_WET_FACTOR == 980000

\* CLEAN_AIR_RACE_PACE, in ticks
CLEAN_AIR_RACE_PACE ==
    << <<"VER", 931910670>>, <<"HAM", 940206220>>, <<"LEC", 934186670>>,
       <<"NOR", 934286000>>, <<"ALO", 947843330>>, <<"PIA", 932321110>>,
       <<"RUS", 938333780>>, <<"SAI", 944974440>>, <<"STR", 953182500>>,
       <<"HUL", 953454550>>, <<"OCO", 956821280>>, <<"GAS", 955000000>>,
       <<"TSU", 954000000>>, <<"ALB", 956000000>> >>

\* TEAM_PERFORMANCE_SCORES, in thousandths
TEAM_PERFORMANCE_SCORES ==
    << <<"McLaren", 1000>>, <<"Mercedes", 527>>, <<"Red Bull", 470>>,
       <<"Ferrari", 409>>, <<"Williams", 183>>, <<"Haas", 72>>,
       <<"Aston Martin", 50>>, <<"Racing Bulls", 36>>, <<"Alpine", 25>>,
       <<"Kick Sauber", 22>> >>

get_driver_code(driver_name) == PairsGet(DRIVER_MAPPING, driver_name, NoValue)

get_driver_name(driver_code) ==
    PairsGet(DRIVER_CODE_TO_NAME, driver_code, NoValue)

get_team(driver_code) == PairsGet(DRIVER_TO_TEAM, driver_code, NoValue)

get_wet_performance_factor(driver_code) ==
    PairsGet(WET_PERFORMANCE_FACTORS, driver_code, DEFAULT_WET_FACTOR)

\* None when the code has no entry
get_clean_air_race_pace(driver_code) ==
    LET pace == PairsGet(CLEAN_AIR_RACE_PACE, driver_code, 0)
    IN  IF pace = 0 THEN None ELSE Num(pace)

get_team_performance_score(team) == PairsGet(TEAM_PERFORMANCE_SCORES, team, 0)

----------------------------------------------------------------------------
\* adjust_qualifying_time_for_weather (model/feature_engineering.py)

\* the default of the threshold parameter, 0.75
DEFAULT_THRESHOLD == 75

\* the same function with a strict comparison
adjust_strict(qualifying_time, rain_probability, wet_performance_factor, threshold) ==
    IF rain_probability > threshold
    THEN FMul(qualifying_time, wet_performance_factor)
    ELSE qualifying_time

adjust_qualifying_time_for_weather(qualifying_time, rain_probability, wet_performance_factor, threshold) ==
    IF rain_probability >= threshold
    THEN FMul(qualifying_time, wet_performance_factor)
    ELSE qualifying_time

----------------------------------------------------------------------------
\* The weather resolver, get_weather_forecast (model/weather.py)

\* a dict key that is not there
Absent == [kind |-> "absent", v |-> 0]

\* the fallback observation (0.0, 20.0)
FALLBACK == <<Num(0), Num(20)>>

\* the largest number of forecast buckets in a provider reply
MaxBuckets == 2

\* timestamps: the one asked for, another one
ForecastTimes == {"2025-03-16 06:00:00", "2025-03-16 09:00:00"}

\* credentials as passed and as found in the environment
ApiKeys == {NoValue, "", "YOURAPIKEY", "key"}

\* a bucket's "pop": missing, null, a probability, a number above 1
PopCells == {Absent, None, Num(80), Num(150)}

\* a bucket's "main": missing, null, or a dict with "temp"
MainCells == {[kind |-> "absent", temp |-> Absent],
              [kind |-> "null", temp |-> Absent],
              [kind |-> "dict", temp |-> Num(25)]}

Buckets == [dt_txt : ForecastTimes \cup {NoValue}, pop : PopCells,
            main : MainCells]

BucketLists == UNION {[1..n -> Buckets] : n \in 0..MaxBuckets}

\* what requests.get / raise_for_status / response.json() can give: a JSON
\* object with or without "list", some other JSON value, or an exception
Replies ==
    [outcome : {"ok"}, body : {"dict"}, has_list : {TRUE}, list : BucketLists]
    \cup [outcome : {"ok"}, body : {"dict", "other"}, has_list : {FALSE},
          list : {<<>>}]
    \cup [outcome : {"http_error", "timeout", "connection_error", "bad_json"},
          body : {"none"}, has_list : {FALSE}, list : {<<>>}]

NoReply == [outcome |-> "none", body |-> "none", has_list |-> FALSE,
            list |-> <<>>]

\* lines 38-39: the credential used
EffectiveKey(api_key, env_key) == IF api_key = NoValue THEN env_key ELSE api_key

\* the test of line 41 without the placeholder
KeyMissingNoPlaceholder(key) == key = NoValue \/ key = ""

\* line 41: not api_key or api_key == "YOURAPIKEY"
KeyMissing(key) == key = NoValue \/ key = "" \/ key = "YOURAPIKEY"

\* lines 55-59: the index of the first bucket whose dt_txt equals
\* forecast_time, 0 when there is none
FirstMatch(list, forecast_time) ==
    LET hits == {i \in 1..Len(list) : list[i].dt_txt = forecast_time}
    IN  IF hits = {} THEN 0 ELSE CHOOSE i \in hits : \A j \in hits : i <= j

\* dict.get(key, default): the default only when the key is missing
DictGet(cell, default) == IF cell.kind = "absent" THEN default ELSE cell

\* lines 50-67, the body of the try: the exception it raises ("none" when
\* it returns) and the pair it returns
TryBody(reply, forecast_time) ==
    LET list == IF reply.has_list THEN reply.list ELSE <<>>
        i == FirstMatch(list, forecast_time)
        raises(e) == [exc |-> e, value |-> FALLBACK]
    IN  CASE reply.outcome = "timeout" -> raises("Timeout")            \* 50
          [] reply.outcome = "connection_error" -> raises("ConnectionError")
          [] reply.outcome = "http_error" -> raises("HTTPError")       \* 51
          [] reply.outcome = "bad_json" -> raises("JSONDecodeError")   \* 52
          [] reply.body # "dict" -> raises("AttributeError")           \* 56
          [] i = 0 -> [exc |-> "none", value |-> FALLBACK]             \* 67
          [] list[i].main.kind = "null" -> raises("AttributeError")    \* 63
          [] OTHER ->
               [exc |-> "none",
                value |-> <<DictGet(list[i].pop, Num(0)),
                            IF list[i].main.kind = "absent" THEN Num(20)
                            ELSE DictGet(list[i].main.temp, Num(20))>>]

\* line 69: except requests.exceptions.RequestException
IsRequestException(e) == e \in {"Timeout", "ConnectionError", "HTTPError"}

\* a handler list that stops after line 69
CatchesRequestOnly(e) == IsRequestException(e)

\* lines 69-74: the two handlers; every exception of the try body is an
\* Exception, so line 72 takes what line 69 leaves
Catches(e) == IsRequestException(e) \/ e \in {"JSONDecodeError", "AttributeError"}

----------------------------------------------------------------------------
\* Data frames
\*
\* A frame is [index, columns, rows]: the index labels, the column names in
\* order, and one row per label, a function from the column names to cells.
\* A numeric cell is Num(n) or None (NaN); a string cell is a string,
\* NoValue (None) or NaNValue (NaN).

\* index labels: positions (a RangeIndex) and strings never compare equal
IntLabel(i) == [kind |-> "int", i |-> i, s |-> ""]
StrLabel(s) == [kind |-> "str", i |-> 0, s |-> s]

Range(seq) == {seq[i] : i \in 1..Len(seq)}

\* pd.RangeIndex(n): 0 .. n-1
RangeIndex(n) == [i \in 1..n |-> IntLabel(i - 1)]

EmptyFrame == [index |-> <<>>, columns |-> <<>>, rows |-> <<>>]

\* a missing string cell as left by Series.map: NaN (truthy) or None (falsy)
NaNValue == "<NaN>"

StringColumns == {"Driver", "DriverCode", "Team", "Driver_x", "Driver_y"}

\* df[name] = values: a new column goes last, an old one is overwritten
WithColumn(df, name, values) ==
    [index |-> df.index,
     columns |-> IF name \in Range(df.columns) THEN df.columns
                 ELSE Append(df.columns, name),
     rows |-> [i \in 1..Len(df.rows) |->
                 [c \in Range(df.columns) \cup {name} |->
                     IF c = name THEN values[i] ELSE df.rows[i][c]]]]

\* df[mask]: the rows whose position is in keep, with their labels
SelectRows(df, keep) ==
    LET pos == SelectSeq([i \in 1..Len(df.rows) |-> i], LAMBDA i : i \in keep)
    IN  [index |-> [k \in 1..Len(pos) |-> df.index[pos[k]]],
         columns |-> df.columns,
         rows |-> [k \in 1..Len(pos) |-> df.rows[pos[k]]]]

\* the ascending arrangement of a non-empty sequence of integers
SortedInts(xs) ==
    LET n == Len(xs)
        perms == {p \in [1..n -> 1..n] : \A i, j \in 1..n : p[i] = p[j] => i = j}
        p == CHOOSE q \in perms : \A i \in 1..(n - 1) : xs[q[i]] <= xs[q[i + 1]]
    IN  [i \in 1..n |-> xs[p[i]]]

\* Series.median() of the present values: the middle one, or the mean of
\* the two middle ones
Median(xs) ==
    LET sorted == SortedInts(xs)
        n == Len(xs)
    IN  IF n % 2 = 1 THEN sorted[(n + 1) \div 2]
        ELSE (sorted[n \div 2] + sorted[n \div 2 + 1]) \div 2

----------------------------------------------------------------------------
\* The feature builder (model/feature_engineering.py) and the frames of
\* run_prediction.py

\* a qualifying entry's driver field as given in the race configuration
DriverInputs == {"Max Verstappen", "VER", "Carlos Sainz Jr.", "ZZZ"}

\* str.match(r"^[A-Z]{3}$") on the driver fields above
MatchesCodePattern(driver) == driver \in {"VER", "ZZZ"}

\* prepare_qualifying_data (run_prediction.py 49-62): entries without a
\* time are skipped; no entry left gives a frame without columns
prepare_qualifying_data(qualifying_data) ==
    LET kept == SelectSeq(qualifying_data, LAMBDA e : IsNum(e.qualifying_time))
    IN  IF kept = <<>> THEN EmptyFrame
        ELSE [index |-> RangeIndex(Len(kept)),
              columns |-> <<"Driver", "QualifyingTime (s)">>,
              rows |-> [i \in 1..Len(kept) |->
                          ("Driver" :> kept[i].driver)
                          @@ ("QualifyingTime (s)" :> kept[i].qualifying_time)]]

\* normalize_driver_names (30-51); df["Driver"] on a frame without that
\* column raises KeyError
normalize_driver_names(df) ==
    IF "Driver" \notin Range(df.columns)
    THEN [raised |-> "KeyError", frame |-> df]
    ELSE LET all_codes == \A i \in 1..Len(df.rows) :
                             MatchesCodePattern(df.rows[i]["Driver"])
             code(i) ==
                 IF all_codes THEN df.rows[i]["Driver"]
                 ELSE LET mapped == get_driver_code(df.rows[i]["Driver"])
                      IN  IF mapped = NoValue THEN df.rows[i]["Driver"]
                          ELSE mapped
         IN  [raised |-> "none",
              frame |-> WithColumn(df, "DriverCode",
                                   [i \in 1..Len(df.rows) |-> code(i)])]

\* add_team_features (54-59)
add_team_features(df) ==
    LET team == [i \in 1..Len(df.rows) |-> get_team(df.rows[i]["DriverCode"])]
        with_team == WithColumn(df, "Team", team)
    IN  WithColumn(with_team, "TeamPerformanceScore",
                   [i \in 1..Len(df.rows) |->
                       Num(get_team_performance_score(team[i]))])

\* add_driver_features (62-67)
add_driver_features(df) ==
    LET wet == [i \in 1..Len(df.rows) |->
                   Num(get_wet_performance_factor(df.rows[i]["DriverCode"]))]
        pace == [i \in 1..Len(df.rows) |->
                   get_clean_air_race_pace(df.rows[i]["DriverCode"])]
    IN  WithColumn(WithColumn(df, "WetPerformanceFactor", wet),
                   "CleanAirRacePace (s)", pace)

\* add_weather_features (70-79): the same two values on every row
add_weather_features(df, rain_probability, temperature) ==
    WithColumn(WithColumn(df, "RainProbability",
                          [i \in 1..Len(df.rows) |-> rain_probability]),
               "Temperature", [i \in 1..Len(df.rows) |-> temperature])

\* run_prediction.py 154-165: the column "QualifyingTime" holds the
\* adjusted time when rain_prob >= 0.75, a copy of "QualifyingTime (s)"
\* otherwise
AdjustColumn(df, rain_prob) ==
    WithColumn(df, "QualifyingTime",
        [i \in 1..Len(df.rows) |->
            IF rain_prob >= 75
            THEN Num(adjust_qualifying_time_for_weather(
                        df.rows[i]["QualifyingTime (s)"].v, rain_prob,
                        df.rows[i]["WetPerformanceFactor"].v, DEFAULT_THRESHOLD))
            ELSE df.rows[i]["QualifyingTime (s)"]])

\* the historical session: per-driver mean sector times of the training
\* race, in ticks (get_average_sector_times), for the drivers with laps
SECTOR_COLUMNS == <<"Sector1Time (s)", "Sector2Time (s)", "Sector3Time (s)", "TotalSectorTime (s)">>

SectorMeans == <<Sec(28), Sec(30), Sec(32), Sec(90)>>

\* add_sector_features (82-102): a left merge on DriverCode = Driver.  The
\* two frames both have a column "Driver", which comes out as Driver_x
\* and Driver_y; the result has a fresh RangeIndex; a driver without
\* history gets NaN in the columns of the right frame
add_sector_features(df, history) ==
    LET rename(c) == IF c = "Driver" THEN "Driver_x" ELSE c
        left == [i \in 1..Len(df.columns) |-> rename(df.columns[i])]
        cols == left \o <<"Driver_y">> \o SECTOR_COLUMNS
        row(i) ==
            LET code == df.rows[i]["DriverCode"]
                known == code \in history
            IN  [c \in Range(cols) |->
                    IF c = "Driver_x" THEN df.rows[i]["Driver"]
                    ELSE IF c = "Driver_y"
                         THEN (IF known THEN code ELSE NaNValue)
                    ELSE IF \E k \in 1..Len(SECTOR_COLUMNS) : SECTOR_COLUMNS[k] = c
                         THEN (IF known
                               THEN Num(SectorMeans[CHOOSE k \in 1..Len(SECTOR_COLUMNS) :
                                                        SECTOR_COLUMNS[k] = c])
                               ELSE None)
                    ELSE df.rows[i][c]]
    IN  [index |-> RangeIndex(Len(df.rows)),
         columns |-> cols,
         rows |-> [i \in 1..Len(df.rows) |-> row(i)]]

\* run_prediction.py 171-172: the rows whose DriverCode is in
\* avg_lap_times.index, under the labels they had
FilterValidDrivers(df, history) ==
    SelectRows(df, {i \in 1..Len(df.rows) : df.rows[i]["DriverCode"] \in history})

\* the integer 0 that fillna(0) puts into a column of strings
ZeroValue == "<0>"

\* a gap of a cell: NaN in a numeric column, None or NaN in a column of
\* strings
IsMissing(df, i, c) ==
    IF c \in StringColumns THEN df.rows[i][c] \in {NoValue, NaNValue}
    ELSE ~IsNum(df.rows[i][c])

\* the present values of a numeric column
ColumnValues(df, c) ==
    LET cells == SelectSeq([i \in 1..Len(df.rows) |-> df.rows[i][c]], IsNum)
    IN  [k \in 1..Len(cells) |-> cells[k].v]

\* create_feature_matrix with line 126 reduced to fillna(median): a column
\* without any present value keeps its gaps
create_feature_matrix_no_default(df, feature_list) ==
    LET available == SelectSeq(feature_list, LAMBDA f : f \in Range(df.columns))
        fill(c) ==
            IF c \in StringColumns THEN ZeroValue
            ELSE IF ColumnValues(df, c) = <<>> THEN None
            ELSE Num(Median(ColumnValues(df, c)))
    IN  [index |-> df.index,
         columns |-> available,
         rows |-> [i \in 1..Len(df.rows) |->
                     [c \in Range(available) |->
                         IF IsMissing(df, i, c) THEN fill(c) ELSE df.rows[i][c]]]]

\* create_feature_matrix with fillna(0) on every column
create_feature_matrix_zero_fill(df, feature_list) ==
    LET available == SelectSeq(feature_list, LAMBDA f : f \in Range(df.columns))
        fill(c) == IF c \in StringColumns THEN ZeroValue ELSE Num(0)
    IN  [index |-> df.index,
         columns |-> available,
         rows |-> [i \in 1..Len(df.rows) |->
                     [c \in Range(available) |->
                         IF IsMissing(df, i, c) THEN fill(c) ELSE df.rows[i][c]]]]

\* create_feature_matrix (105-130): the listed columns that exist, in the
\* order of the list; the gaps of a numeric column are filled with the
\* median of its present values, or 0 when it has none; the gaps of any
\* other column with 0
create_feature_matrix(df, feature_list) ==
    LET available == SelectSeq(feature_list, LAMBDA f : f \in Range(df.columns))
        fill(c) ==
            IF c \in StringColumns THEN ZeroValue
            ELSE IF ColumnValues(df, c) = <<>> THEN Num(0)
            ELSE Num(Median(ColumnValues(df, c)))
    IN  [index |-> df.index,
         columns |-> available,
         rows |-> [i \in 1..Len(df.rows) |->
                     [c \in Range(available) |->
                         IF IsMissing(df, i, c) THEN fill(c) ELSE df.rows[i][c]]]]

\* run_prediction.py 184: avg_lap_times.reindex(df["DriverCode"]).dropna():
\* a series labelled by the driver codes of the rows, in their order,
\* without the codes that have no average lap time
TargetIndex(df, history) ==
    LET codes == [i \in 1..Len(df.rows) |-> df.rows[i]["DriverCode"]]
        kept == SelectSeq(codes, LAMBDA c : c \in history)
    IN  [k \in 1..Len(kept) |-> StrLabel(kept[k])]

\* X.loc[labels]: the rows of X with these labels, in the order of the
\* labels; KeyError when a label is not in X's index
Loc(X, labels) ==
    IF \E k \in 1..Len(labels) : labels[k] \notin Range(X.index)
    THEN [raised |-> "KeyError", frame |-> X]
    ELSE LET pos(k) == CHOOSE i \in 1..Len(X.index) : X.index[i] = labels[k]
         IN  [raised |-> "none",
              frame |-> [index |-> labels, columns |-> X.columns,
                         rows |-> [k \in 1..Len(labels) |-> X.rows[pos(k)]]]]

\* get_weather_forecast(latitude, longitude, forecast_time) as main calls
\* it, without api_key: the pair returned, or the exception raised
get_weather_forecast(env_key, reply, forecast_time) ==
    IF KeyMissing(EffectiveKey(NoValue, env_key))
    THEN [raised |-> "none", value |-> FALLBACK]
    ELSE LET t == TryBody(reply, forecast_time)
         IN  IF t.exc = "none" THEN [raised |-> "none", value |-> t.value]
             ELSE IF Catches(t.exc) THEN [raised |-> "none", value |-> FALLBACK]
             ELSE [raised |-> t.exc, value |-> FALLBACK]

----------------------------------------------------------------------------
\* The formatter, validator and writer (model/predict.py)
\*
\* A report is [keys, predictions_is_list, metadata_is_dict, predictions]:
\* the top-level keys present, the types of two of their values and the
\* prediction entries, each [keys, driver, predicted_time, qualifying_time,
\* team] with the keys present in it.

\* line 40 without the last key
required_keys_short == <<"race", "year", "predictions">>

\* line 40
required_keys == <<"race", "year", "predictions", "model_metadata">>

\* line 52, one key short
required_prediction_keys_short == <<"driver", "predicted_time", "qualifying_time">>

\* line 52
required_prediction_keys == <<"driver", "predicted_time", "qualifying_time", "team">>

\* lines 40-58: "True" when the function returns, "ValueError" when it raises
validate_prediction_schema(data) ==
    IF \E i \in 1..Len(required_keys) : required_keys[i] \notin data.keys
    THEN "ValueError"                                     \* line 43
    ELSE IF ~data.predictions_is_list THEN "ValueError"   \* line 46
    ELSE IF ~data.metadata_is_dict THEN "ValueError"      \* line 49
    ELSE IF \E i \in 1..Len(data.predictions) :
              \E k \in 1..Len(required_prediction_keys) :
                 required_prediction_keys[k] \notin data.predictions[i].keys
    THEN "ValueError"                                     \* line 56
    ELSE "True"

\* the permutations of 1..n
Perms(n) == {p \in [1..n -> 1..n] : \A i, j \in 1..n : p[i] = p[j] => i = j}

\* the rows in no particular order
UnsortedOrders(frame) == Perms(Len(frame.rows))

\* the rows sorted the other way round (ascending=False)
DescendingOrders(frame) ==
    {p \in Perms(Len(frame.rows)) :
        \A i \in 1..(Len(frame.rows) - 1) :
            frame.rows[p[i]]["PredictedRaceTime (s)"].v
                >= frame.rows[p[i + 1]]["PredictedRaceTime (s)"].v}

\* line 132, sort_values("PredictedRaceTime (s)"): the default sort is not
\* stable, so the rows come out in any order that is ascending by
\* predicted time
SortedOrders(frame) ==
    {p \in Perms(Len(frame.rows)) :
        \A i \in 1..(Len(frame.rows) - 1) :
            frame.rows[p[i]]["PredictedRaceTime (s)"].v
                <= frame.rows[p[i + 1]]["PredictedRaceTime (s)"].v}

\* x or y
Or(x, y) == IF x = NoValue \/ x = "" THEN y ELSE x

\* row.get(column, default)
RowGet(row, column, default) ==
    IF column \in DOMAIN row THEN row[column] ELSE default

\* lines 136-145: the entry of one row
PredictionEntry(row) ==
    LET driver_code == RowGet(row, "DriverCode", RowGet(row, "Driver", "UNK"))
    IN  [keys |-> {"driver", "predicted_time", "qualifying_time", "team"},
         driver |-> Or(get_driver_name(driver_code), driver_code),
         predicted_time |-> row["PredictedRaceTime (s)"].v,
         qualifying_time |-> RowGet(row, "QualifyingTime (s)", Num(0)).v,
         team |-> Or(RowGet(row, "Team", NoValue),
                     Or(get_team(driver_code), "Unknown"))]

\* lines 134-159: the report of the rows taken in the order p
BuildReport(frame, p) ==
    [keys |-> {"race", "year", "predictions", "model_metadata"},
     predictions_is_list |-> TRUE,
     metadata_is_dict |-> TRUE,
     predictions |-> [i \in 1..Len(frame.rows) |->
                        PredictionEntry(frame.rows[p[i]])]]

NoReport == [keys |-> {}, predictions_is_list |-> FALSE,
             metadata_is_dict |-> FALSE, predictions |-> <<>>]

----------------------------------------------------------------------------
\* Calls of the functions on their own

QTimes == {Sec(80), Sec(90), Sec(95)}
RainProbabilities == {0, 50, 74, 75, 76, 90, 100}
Factors == {968678, 975196, DEFAULT_WET_FACTOR}
Thresholds == {0 - 25, 0, DEFAULT_THRESHOLD, 100}
RequestedTimes == {"2025-03-16 06:00:00"}

\* the largest frame handed to the formatter
MaxRows == 2

\* the largest predictions list of a report handed to the writer directly
MaxEntries == 2

PredictedTimes == {Sec(91), Sec(92)}

\* rows as generate_predictions leaves them: a mapped code, a code mapped
\* under two names, an unmapped one; the team found, or missing (None or
\* NaN)
PREDICTION_COLUMNS == <<"DriverCode", "Team", "QualifyingTime (s)", "PredictedRaceTime (s)">>

FrameRows ==
    {("DriverCode" :> code) @@ ("Team" :> team)
       @@ ("QualifyingTime (s)" :> Num(Sec(90)))
       @@ ("PredictedRaceTime (s)" :> Num(predicted)) :
         code \in {"VER", "SAI", "ZZZ"}, team \in {"Red Bull", NoValue, NaNValue},
         predicted \in PredictedTimes}

Frames ==
    {[index |-> RangeIndex(Len(rows)), columns |-> PREDICTION_COLUMNS,
      rows |-> rows] : rows \in UNION {[1..n -> FrameRows] : n \in 0..MaxRows}}

\* the same rows, with their labels, in another order
Permuted(frame, p) ==
    [index |-> [i \in 1..Len(frame.rows) |-> frame.index[p[i]]],
     columns |-> frame.columns,
     rows |-> [i \in 1..Len(frame.rows) |-> frame.rows[p[i]]]]

\* entries of a report written by hand: all keys, or one of them missing
EntryKeys == {"driver", "predicted_time", "qualifying_time", "team"}

TopKeys == {"race", "year", "predictions", "model_metadata"}

CallerEntries ==
    [keys : {EntryKeys} \cup {EntryKeys \ {k} : k \in EntryKeys},
     driver : {"Max Verstappen"},
     predicted_time : PredictedTimes,
     qualifying_time : {Sec(90)},
     team : {"Red Bull"}]

CallerReports ==
    [keys : SUBSET TopKeys,
     predictions_is_list : {TRUE},
     metadata_is_dict : BOOLEAN,
     predictions : UNION {[1..n -> CallerEntries] : n \in 0..MaxEntries}]
    \cup [keys : SUBSET TopKeys,
          predictions_is_list : {FALSE},
          metadata_is_dict : BOOLEAN,
          predictions : {<<>>}]

\* nothing served yet
NoResponse == [served |-> FALSE, found |-> FALSE, predictions |-> <<>>]

\* the output file: whether it exists, and the report written to it
NoFile == [exists |-> FALSE, content |-> NoReport]

RIdle ==
    /\ r_pc = "idle" /\ r_origin = "none"
    /\ r_frame = EmptyFrame /\ r_frame2 = EmptyFrame
    /\ r_report = NoReport /\ r_report2 = NoReport /\ r_validated = "pending"
    /\ fs_dir = FALSE /\ fs_file = NoFile /\ api_response = NoResponse

MIdle ==
    /\ m_pc = "idle" /\ m_exit = "none" /\ cfg_exists = FALSE
    /\ cfg_qualifying = <<>> /\ cfg_features = <<>> /\ m_history = {}
    /\ m_frame = EmptyFrame /\ m_rain = Num(0) /\ m_temp = Num(0)
    /\ m_X = EmptyFrame /\ m_y = <<>>

AdjIdle ==
    /\ adj_pc = "idle" /\ adj_q = 0 /\ adj_p = 0 /\ adj_f = 0 /\ adj_out = 0

WIdle ==
    /\ w_pc = "idle" /\ w_api_key = NoValue /\ w_env_key = NoValue
    /\ w_forecast_time = NoValue /\ w_reply = NoReply /\ w_result = FALLBACK
    /\ w_raised = "none" /\ w_q = 0 /\ w_f = 0 /\ w_threshold = 0
    /\ w_adjusted = 0

NIdle ==
    /\ n_pc = "idle" /\ n_frame = EmptyFrame /\ n_out = EmptyFrame
    /\ n_raised = "none"

GIdle ==
    /\ g_pc = "idle" /\ g_X = EmptyFrame /\ g_feature_names = <<>>
    /\ g_use_imputation = TRUE /\ g_matrix = EmptyFrame /\ g_raised = "none"

XIdle ==
    /\ x_pc = "idle" /\ x_frame = EmptyFrame /\ x_features = <<>>
    /\ x_X = EmptyFrame /\ x_X2 = EmptyFrame

LIdle == l_pc = "idle" /\ l_laps = <<>> /\ l_out = <<>>

NoKey == [table |-> "none", key |-> NoValue]

TIdle == t_pc = "idle" /\ t_key = NoKey /\ t_image = NoValue /\ t_back = NoValue

FIdle == NIdle /\ GIdle /\ XIdle /\ LIdle /\ TIdle

\* adjust_qualifying_time_for_weather(q, p, f), threshold left at its default
CallAdjust ==
    /\ adj_pc = "call"
    /\ adj_out' = adjust_qualifying_time_for_weather(adj_q, adj_p, adj_f, DEFAULT_THRESHOLD)
    /\ adj_pc' = "done"
    /\ UNCHANGED <<adj_q, adj_p, adj_f, wvars, rvars, mvars, fvars>>

AdjustInit ==
    /\ adj_pc = "call" /\ adj_out = 0
    /\ adj_q \in QTimes /\ adj_p \in RainProbabilities /\ adj_f \in Factors
    /\ WIdle /\ RIdle /\ MIdle /\ FIdle

AdjustNext == CallAdjust

AdjustSpec == AdjustInit /\ [][AdjustNext]_vars

\* get_weather_forecast, lines 38-43
WStart ==
    /\ w_pc = "start"
    /\ IF KeyMissing(EffectiveKey(w_api_key, w_env_key))
       THEN w_result' = FALLBACK /\ w_pc' = "returned"
       ELSE w_result' = w_result /\ w_pc' = "request"
    /\ UNCHANGED <<w_api_key, w_env_key, w_forecast_time, w_reply, w_raised,
                   w_q, w_f, w_threshold, w_adjusted, adjvars, rvars, mvars, fvars>>

\* line 50: the provider answers, fails, or the timeout of 10 s expires
WRequest ==
    /\ w_pc = "request"
    /\ \E reply \in Replies : w_reply' = reply
    /\ w_pc' = "process"
    /\ UNCHANGED <<w_api_key, w_env_key, w_forecast_time, w_result, w_raised,
                   w_q, w_f, w_threshold, w_adjusted, adjvars, rvars, mvars, fvars>>

\* lines 51-74: the rest of the try body and the handlers
WProcess ==
    /\ w_pc = "process"
    /\ LET t == TryBody(w_reply, w_forecast_time)
       IN  IF t.exc = "none"
           THEN w_result' = t.value /\ w_raised' = "none" /\ w_pc' = "returned"
           ELSE IF Catches(t.exc)
           THEN w_result' = FALLBACK /\ w_raised' = "none" /\ w_pc' = "returned"
           ELSE w_result' = w_result /\ w_raised' = t.exc /\ w_pc' = "raised"
    /\ UNCHANGED <<w_api_key, w_env_key, w_forecast_time, w_reply,
                   w_q, w_f, w_threshold, w_adjusted, adjvars, rvars, mvars, fvars>>

\* a caller adjusts a qualifying time with the rain probability returned and
\* a threshold of its choice; a rain probability of None raises TypeError
WAdjust ==
    /\ w_pc = "returned"
    /\ \E q \in {Sec(90)}, f \in {975196, DEFAULT_WET_FACTOR}, thr \in Thresholds :
         /\ w_q' = q /\ w_f' = f /\ w_threshold' = thr
         /\ IF IsNum(w_result[1])
            THEN /\ w_adjusted' = adjust_qualifying_time_for_weather(q, w_result[1].v, f, thr)
                 /\ w_pc' = "adjusted"
            ELSE /\ w_adjusted' = w_adjusted
                 /\ w_pc' = "adjust_raised"
    /\ w_reply' = NoReply  \* the call's local is gone
    /\ UNCHANGED <<w_api_key, w_env_key, w_forecast_time, w_result,
                   w_raised, adjvars, rvars, mvars, fvars>>

WeatherInit ==
    /\ w_pc = "start"
    /\ w_api_key \in ApiKeys /\ w_env_key \in ApiKeys
    /\ w_forecast_time \in RequestedTimes
    /\ w_reply = NoReply /\ w_result = FALLBACK /\ w_raised = "none"
    /\ w_q = 0 /\ w_f = 0 /\ w_threshold = 0 /\ w_adjusted = 0
    /\ AdjIdle /\ RIdle /\ MIdle /\ FIdle

WeatherNext == WStart \/ WRequest \/ WProcess \/ WAdjust

WeatherSpec == WeatherInit /\ [][WeatherNext]_vars

\* format_predictions_for_json(predictions_df, ...), lines 131-159
Format ==
    /\ r_pc = "format"
    /\ \E p \in SortedOrders(r_frame) : r_report' = BuildReport(r_frame, p)
    /\ r_pc' = "format_permuted"
    /\ UNCHANGED <<r_origin, r_frame, r_frame2, r_report2, r_validated,
                   fs_dir, fs_file, api_response, adjvars, wvars, mvars, fvars>>

\* the same call on the same rows in another order
FormatPermuted ==
    /\ r_pc = "format_permuted"
    /\ \E p \in SortedOrders(r_frame2) : r_report2' = BuildReport(r_frame2, p)
    /\ r_pc' = "validate"
    /\ UNCHANGED <<r_origin, r_frame, r_frame2, r_report, r_validated,
                   fs_dir, fs_file, api_response, adjvars, wvars, mvars, fvars>>

\* save_predictions_json, line 174: validate_prediction_schema returns or
\* raises, and the ValueError leaves save_predictions_json
SaveValidate ==
    /\ r_pc = "validate"
    /\ r_validated' = validate_prediction_schema(r_report)
    /\ r_pc' = IF r_validated' = "True" THEN "mkdir" ELSE "raised"
    /\ UNCHANGED <<r_origin, r_frame, r_frame2, r_report, r_report2,
                   fs_dir, fs_file, api_response, adjvars, wvars, mvars, fvars>>

\* line 177: output_path.parent.mkdir(parents=True, exist_ok=True)
SaveMkdir ==
    /\ r_pc = "mkdir"
    /\ fs_dir' = TRUE
    /\ r_pc' = "write"
    /\ UNCHANGED <<r_origin, r_frame, r_frame2, r_report, r_report2,
                   r_validated, fs_file, api_response,
                   adjvars, wvars, mvars, fvars>>

\* lines 180-181: json.dump into the opened file
SaveWrite ==
    /\ r_pc = "write"
    /\ fs_file' = [exists |-> TRUE, content |-> r_report]
    /\ r_pc' = "saved"
    /\ UNCHANGED <<r_origin, r_frame, r_frame2, r_report, r_report2,
                   r_validated, fs_dir, api_response,
                   adjvars, wvars, mvars, fvars>>

\* api/main.py 84-108, data.get(key, []) for the list under a key: the
\* reports have one list, under "predictions"
ReportGetList(data, key) ==
    IF key \in data.keys /\ key = "predictions" THEN data.predictions ELSE <<>>

\* api/main.py 92-97: the entry republished for one entry of the list
FrontendEntry(driver_data) ==
    [driver |-> IF "driver" \in driver_data.keys THEN driver_data.driver ELSE "",
     predicted_race_time |-> IF "predicted_time" \in driver_data.keys
                             THEN driver_data.predicted_time ELSE 0,
     qualifying_time |-> 0,
     team |-> IF "team" \in driver_data.keys THEN driver_data.team ELSE "Unknown"]

\* api/main.py 84-108
convert_to_frontend_format(data) ==
    LET drivers == ReportGetList(data, "drivers")
    IN  [served |-> TRUE, found |-> TRUE,
         predictions |-> [i \in 1..Len(drivers) |-> FrontendEntry(drivers[i])]]

\* api/main.py 61-81, load_prediction(race_id) once the core is through:
\* None when there is no file, the converted report otherwise
LoadPrediction ==
    /\ r_pc \in {"saved", "raised"}
    /\ api_response' = IF fs_file.exists
                       THEN convert_to_frontend_format(fs_file.content)
                       ELSE [served |-> TRUE, found |-> FALSE, predictions |-> <<>>]
    /\ r_pc' = "served"
    /\ UNCHANGED <<r_origin, r_frame, r_frame2, r_report, r_report2,
                   r_validated, fs_dir, fs_file, adjvars, wvars, mvars, fvars>>

\* a report comes from the formatter, or is handed to the writer as it is
ReportInit ==
    /\ r_validated = "pending" /\ fs_dir = FALSE /\ fs_file = NoFile
    /\ r_report2 = NoReport /\ api_response = NoResponse
    /\ \/ /\ r_origin = "format" /\ r_pc = "format"
          /\ r_frame \in Frames
          /\ \E p \in Perms(Len(r_frame.rows)) : r_frame2 = Permuted(r_frame, p)
          /\ r_report = NoReport
       \/ /\ r_origin = "caller" /\ r_pc = "validate"
          /\ r_frame = EmptyFrame /\ r_frame2 = EmptyFrame
          /\ r_report \in CallerReports
    /\ AdjIdle /\ WIdle /\ MIdle /\ FIdle

ReportNext ==
    \/ Format \/ FormatPermuted \/ SaveValidate \/ SaveMkdir \/ SaveWrite
    \/ LoadPrediction

ReportSpec == ReportInit /\ [][ReportNext]_vars

----------------------------------------------------------------------------
\* run_prediction.py, main: one batch run

\* the largest number of entries of qualifying_data
MaxDrivers == 2

QualifyingEntries ==
    [driver : DriverInputs, qualifying_time : {Num(Sec(90)), None}]

QualifyingLists == UNION {[1..n -> QualifyingEntries] : n \in 0..MaxDrivers}

\* config.get("features", ["QualifyingTime (s)"]): the default, the adjusted
\* column, a list with a column the frame does not have
FeatureLists ==
    {<<"QualifyingTime (s)">>, <<"QualifyingTime">>,
     <<"QualifyingTime (s)", "CleanAirRacePace (s)", "SeasonPoints">>}

\* the drivers that may have laps in the historical session
HistoryCodes == {"VER", "SAI"}

\* what the weather provider may answer in a run
MainReplies ==
    {[outcome |-> "timeout", body |-> "none", has_list |-> FALSE, list |-> <<>>]}
    \cup {[outcome |-> "ok", body |-> "dict", has_list |-> TRUE,
           list |-> <<[dt_txt |-> t, pop |-> p,
                       main |-> [kind |-> "dict", temp |-> Num(25)]]>>] :
             t \in RequestedTimes, p \in {None, Num(50), Num(75), Num(90)}}

Others == <<adjvars, wvars, rvars, fvars>>

\* sys.exit(1) after a message
Exit(reason) == m_pc' = "exit1" /\ m_exit' = reason

\* an exception nobody catches
Crash(exception) == m_pc' = "crashed" /\ m_exit' = exception

\* lines 107-113
MLoadConfig ==
    /\ m_pc = "load_config"
    /\ IF cfg_exists THEN m_pc' = "load_training" /\ m_exit' = m_exit
       ELSE Exit("config_missing")
    /\ UNCHANGED <<cfg_exists, cfg_qualifying, cfg_features, m_history,
                   m_frame, m_rain, m_temp, m_X, m_y, Others>>

\* lines 115-130: the session loads and has laps for some drivers, or
\* anything in the try fails
MLoadTraining ==
    /\ m_pc = "load_training"
    /\ \E ok \in BOOLEAN, history \in SUBSET HistoryCodes :
         IF ok THEN m_history' = history /\ m_pc' = "prepare" /\ m_exit' = m_exit
         ELSE m_history' = {} /\ Exit("training_failed")
    /\ UNCHANGED <<cfg_exists, cfg_qualifying, cfg_features,
                   m_frame, m_rain, m_temp, m_X, m_y, Others>>

\* lines 132-139; add_custom_features adds nothing for a configuration
\* without season_points and average_position_change
MPrepare ==
    /\ m_pc = "prepare"
    /\ LET n == normalize_driver_names(prepare_qualifying_data(cfg_qualifying))
       IN  IF n.raised # "none"
           THEN m_frame' = m_frame /\ Crash(n.raised)
           ELSE /\ m_frame' = add_driver_features(add_team_features(n.frame))
                /\ m_pc' = "weather" /\ m_exit' = m_exit
    /\ UNCHANGED <<cfg_exists, cfg_qualifying, cfg_features, m_history,
                   m_rain, m_temp, m_X, m_y, Others>>

\* lines 141-152: the forecast, the line printing it with {:.2%} and
\* {:.1f} (TypeError for None), add_weather_features
MWeather ==
    /\ m_pc = "weather"
    /\ \E env_key \in {NoValue, "key"}, reply \in MainReplies,
          forecast_time \in RequestedTimes :
         LET w == get_weather_forecast(env_key, reply, forecast_time)
         IN  IF w.raised # "none"
             THEN UNCHANGED <<m_frame, m_rain, m_temp>> /\ Crash(w.raised)
             ELSE IF ~IsNum(w.value[1]) \/ ~IsNum(w.value[2])
             THEN /\ m_rain' = w.value[1] /\ m_temp' = w.value[2]
                  /\ m_frame' = m_frame /\ Crash("TypeError")
             ELSE /\ m_rain' = w.value[1] /\ m_temp' = w.value[2]
                  /\ m_frame' = add_weather_features(m_frame, w.value[1], w.value[2])
                  /\ m_pc' = "adjust" /\ m_exit' = m_exit
    /\ UNCHANGED <<cfg_exists, cfg_qualifying, cfg_features, m_history,
                   m_X, m_y, Others>>

\* lines 154-165
MAdjust ==
    /\ m_pc = "adjust"
    /\ m_frame' = AdjustColumn(m_frame, m_rain.v)
    /\ m_pc' = "merge"
    /\ UNCHANGED <<m_exit, cfg_exists, cfg_qualifying, cfg_features, m_history,
                   m_rain, m_temp, m_X, m_y, Others>>

\* lines 167-176
MMerge ==
    /\ m_pc = "merge"
    /\ m_frame' = FilterValidDrivers(add_sector_features(m_frame, m_history),
                                     m_history)
    /\ IF Len(m_frame'.rows) = 0 THEN Exit("no_valid_drivers")
       ELSE m_pc' = "features" /\ m_exit' = m_exit
    /\ UNCHANGED <<cfg_exists, cfg_qualifying, cfg_features, m_history,
                   m_rain, m_temp, m_X, m_y, Others>>

\* lines 178-181
MFeatures ==
    /\ m_pc = "features"
    /\ m_X' = create_feature_matrix(m_frame, cfg_features)
    /\ m_pc' = "align"
    /\ UNCHANGED <<m_exit, cfg_exists, cfg_qualifying, cfg_features, m_history,
                   m_frame, m_rain, m_temp, m_y, Others>>

\* lines 183-190: y, X = X.loc[y.index], the rows of qualifying_2025 with
\* a target, and the exit when X is empty
MAlign ==
    /\ m_pc = "align"
    /\ m_y' = TargetIndex(m_frame, m_history)
    /\ LET x == Loc(m_X, m_y')
       IN  IF x.raised # "none"
           THEN UNCHANGED <<m_X, m_frame>> /\ Crash(x.raised)
           ELSE /\ m_X' = x.frame
                /\ m_frame' = FilterValidDrivers(m_frame, {l.s : l \in Range(m_y')})
                /\ IF Len(x.frame.rows) = 0 THEN Exit("no_matching_drivers")
                   ELSE m_pc' = "train" /\ m_exit' = m_exit
    /\ UNCHANGED <<cfg_exists, cfg_qualifying, cfg_features, m_history,
                   m_rain, m_temp, Others>>

Init ==
    /\ m_pc = "load_config" /\ m_exit = "none"
    /\ cfg_exists \in BOOLEAN
    /\ cfg_qualifying \in QualifyingLists
    /\ cfg_features \in FeatureLists
    /\ m_history = {} /\ m_frame = EmptyFrame
    /\ m_rain = Num(0) /\ m_temp = Num(0) /\ m_X = EmptyFrame /\ m_y = <<>>
    /\ AdjIdle /\ WIdle /\ RIdle /\ FIdle

Next ==
    \/ MLoadConfig \/ MLoadTraining \/ MPrepare \/ MWeather \/ MAdjust
    \/ MMerge \/ MFeatures \/ MAlign

Spec == Init /\ [][Next]_vars

----------------------------------------------------------------------------
\* normalize_driver_names called on its own

\* the largest number of rows of the frame
MaxNames == 2

\* driver fields: full names of the table, codes, strings the table does
\* not have, the empty string
NameInputs == DriverInputs \cup {"Lando Norris", "max verstappen", ""}

\* the frames handed over: pd.DataFrame([]) as prepare_qualifying_data
\* returns it when no entry has a time, and frames with a column Driver
NameFrames ==
    {EmptyFrame}
    \cup {[index |-> RangeIndex(Len(names)), columns |-> <<"Driver">>,
           rows |-> [i \in 1..Len(names) |-> ("Driver" :> names[i])]] :
            names \in UNION {[1..n -> NameInputs] : n \in 1..MaxNames}}

CallNormalize ==
    /\ n_pc = "call"
    /\ LET n == normalize_driver_names(n_frame)
       IN  /\ n_raised' = n.raised
           /\ n_out' = IF n.raised = "none" THEN n.frame ELSE n_out
           /\ n_pc' = IF n.raised = "none" THEN "done" ELSE "raised"
    /\ UNCHANGED <<n_frame, adjvars, wvars, rvars, mvars,
                   gvars, xvars, lvars, tvars>>

NormalizeInit ==
    /\ n_pc = "call" /\ n_frame \in NameFrames
    /\ n_out = EmptyFrame /\ n_raised = "none"
    /\ AdjIdle /\ WIdle /\ RIdle /\ MIdle /\ GIdle /\ XIdle /\ LIdle /\ TIdle

NormalizeNext == CallNormalize

NormalizeSpec == NormalizeInit /\ [][NormalizeNext]_vars

----------------------------------------------------------------------------
\* generate_predictions (model/predict.py 61-106) called on its own

\* the largest number of rows of X
MaxPredictRows == 2

\* lines 82-90: the columns feature_names in that order, a name X does not
\* have as a column of 0.0
XPred(X, feature_names) ==
    [index |-> X.index,
     columns |-> feature_names,
     rows |-> [i \in 1..Len(X.rows) |->
                 [f \in Range(feature_names) |->
                     IF f \in Range(X.columns) THEN X.rows[i][f] ELSE Num(0)]]]

\* lines 94-95, SimpleImputer(strategy="median").fit_transform: a gap gets
\* the median of its column, and a column without any present value is
\* dropped from the array
SimpleImputerMedian(X_pred) ==
    LET kept == SelectSeq(X_pred.columns,
                          LAMBDA c : ColumnValues(X_pred, c) # <<>>)
    IN  [index |-> X_pred.index,
         columns |-> kept,
         rows |-> [i \in 1..Len(X_pred.rows) |->
                     [c \in Range(kept) |->
                         IF IsNum(X_pred.rows[i][c]) THEN X_pred.rows[i][c]
                         ELSE Num(Median(ColumnValues(X_pred, c)))]]]

\* line 97, X_pred.fillna(X_pred.median()): the median of a column without
\* any present value is NaN, and its gaps stay
FillnaMedian(X_pred) ==
    [index |-> X_pred.index,
     columns |-> X_pred.columns,
     rows |-> [i \in 1..Len(X_pred.rows) |->
                 [c \in Range(X_pred.columns) |->
                     IF IsNum(X_pred.rows[i][c]) \/ ColumnValues(X_pred, c) = <<>>
                     THEN X_pred.rows[i][c]
                     ELSE Num(Median(ColumnValues(X_pred, c)))]]]

\* line 100: the regressor refuses a matrix whose number of columns is not
\* the one it was fitted with, and a matrix with NaN
PredictRaises(matrix, feature_names) ==
    \/ Len(matrix.columns) # Len(feature_names)
    \/ \E i \in 1..Len(matrix.rows) : \E c \in Range(matrix.columns) :
          ~IsNum(matrix.rows[i][c])

PredictColumns == {<<"QualifyingTime (s)">>, <<"CleanAirRacePace (s)">>,
                   <<"QualifyingTime (s)", "CleanAirRacePace (s)">>,
                   <<"CleanAirRacePace (s)", "QualifyingTime (s)">>}

PredictCells == {Num(Sec(90)), Num(Sec(92)), None}

\* X as main hands it over has at least one row (run_prediction.py 188)
PredictFrames ==
    {[index |-> RangeIndex(n), columns |-> cols, rows |-> rows] :
        <<n, cols, rows>> \in
            UNION {{<<k, c, r>> : r \in [1..k -> [Range(c) -> PredictCells]]} :
                      k \in 1..MaxPredictRows, c \in PredictColumns}}

\* the names the model was trained with
FeatureNames == {<<"QualifyingTime (s)">>,
                 <<"QualifyingTime (s)", "CleanAirRacePace (s)">>,
                 <<"CleanAirRacePace (s)", "QualifyingTime (s)">>,
                 <<"QualifyingTime (s)", "SeasonPoints">>,
                 <<"SeasonPoints", "CleanAirRacePace (s)", "QualifyingTime (s)">>}

\* lines 81-100
CallGenerate ==
    /\ g_pc = "call"
    /\ LET X_pred == XPred(g_X, g_feature_names)
           X_processed == IF g_use_imputation THEN SimpleImputerMedian(X_pred)
                          ELSE FillnaMedian(X_pred)
       IN  /\ g_matrix' = X_processed
           /\ IF PredictRaises(X_processed, g_feature_names)
              THEN g_raised' = "ValueError" /\ g_pc' = "raised"
              ELSE g_raised' = "none" /\ g_pc' = "predicted"
    /\ UNCHANGED <<g_X, g_feature_names, g_use_imputation,
                   adjvars, wvars, rvars, mvars, nvars, xvars, lvars, tvars>>

GenerateInit ==
    /\ g_pc = "call" /\ g_X \in PredictFrames
    /\ g_feature_names \in FeatureNames /\ g_use_imputation \in BOOLEAN
    /\ g_matrix = EmptyFrame /\ g_raised = "none"
    /\ AdjIdle /\ WIdle /\ RIdle /\ MIdle /\ NIdle /\ XIdle /\ LIdle /\ TIdle

GenerateNext == CallGenerate

GenerateSpec == GenerateInit /\ [][GenerateNext]_vars

----------------------------------------------------------------------------
\* create_feature_matrix called on its own, and on its own result

\* the largest number of rows of the frame
MaxMatrixRows == 3

MATRIX_COLUMNS == <<"Team", "QualifyingTime (s)", "CleanAirRacePace (s)">>

\* a row: the team or its gap, a qualifying time or its gap, a race pace
\* or its gap
MatrixRows ==
    {("Team" :> team) @@ ("QualifyingTime (s)" :> q)
       @@ ("CleanAirRacePace (s)" :> pace) :
         team \in {"Red Bull", NaNValue},
         q \in {Num(Sec(90)), Num(Sec(94)), None},
         pace \in {Num(Sec(93)), None}}

MatrixFrames ==
    {[index |-> RangeIndex(Len(rows)), columns |-> MATRIX_COLUMNS,
      rows |-> rows] :
        rows \in UNION {[1..n -> MatrixRows] : n \in 0..MaxMatrixRows}}

\* feature lists: in and out of the order of the columns, with a column
\* the frame does not have, with the column of strings
MatrixFeatureLists ==
    {<<"QualifyingTime (s)">>,
     <<"CleanAirRacePace (s)", "SeasonPoints", "QualifyingTime (s)">>,
     <<"Team", "QualifyingTime (s)">>}

\* X = create_feature_matrix(df, feature_list)
BuildMatrix ==
    /\ x_pc = "call"
    /\ x_X' = create_feature_matrix(x_frame, x_features)
    /\ x_pc' = "built"
    /\ UNCHANGED <<x_frame, x_features, x_X2,
                   adjvars, wvars, rvars, mvars, nvars, gvars, lvars, tvars>>

\* create_feature_matrix(X, feature_list)
RebuildMatrix ==
    /\ x_pc = "built"
    /\ x_X2' = create_feature_matrix(x_X, x_features)
    /\ x_pc' = "rebuilt"
    /\ UNCHANGED <<x_frame, x_features, x_X,
                   adjvars, wvars, rvars, mvars, nvars, gvars, lvars, tvars>>

MatrixInit ==
    /\ x_pc = "call" /\ x_frame \in MatrixFrames
    /\ x_features \in MatrixFeatureLists
    /\ x_X = EmptyFrame /\ x_X2 = EmptyFrame
    /\ AdjIdle /\ WIdle /\ RIdle /\ MIdle /\ NIdle /\ GIdle /\ LIdle /\ TIdle

MatrixNext == BuildMatrix \/ RebuildMatrix

MatrixSpec == MatrixInit /\ [][MatrixNext]_vars

----------------------------------------------------------------------------
\* extract_lap_times (model/collect_data.py 36-63) called on its own

\* the largest number of laps of the session
MaxLaps == 2

\* line 51, include_sectors=True
LAP_COLUMNS == <<"Driver", "LapTime", "Sector1Time", "Sector2Time", "Sector3Time">>

\* line 59
DURATION_COLUMNS == <<"LapTime", "Sector1Time", "Sector2Time", "Sector3Time">>

\* col -> f"{col} (s)"
SecondsColumn(col) ==
    CASE col = "LapTime" -> "LapTime (s)"
      [] col = "Sector1Time" -> "Sector1Time (s)"
      [] col = "Sector2Time" -> "Sector2Time (s)"
      [] col = "Sector3Time" -> "Sector3Time (s)"

\* Timedelta.total_seconds(): a duration held in milliseconds, as seconds
\* in ticks of 1e-7 s
total_seconds(ms) == ms * (Sec(1) \div 1000)

\* the laps of a session: a driver and four durations in milliseconds,
\* NaT for a lap or a first sector that was not timed
LapRows ==
    {("Driver" :> driver) @@ ("LapTime" :> lap) @@ ("Sector1Time" :> s1)
       @@ ("Sector2Time" :> Num(30 * 1000)) @@ ("Sector3Time" :> Num(32 * 1000)) :
         driver \in {"VER", "SAI"},
         lap \in {Num(90 * 1000), None},
         s1 \in {Num(28 * 1000), None}}

SessionLaps ==
    {[index |-> RangeIndex(Len(rows)), columns |-> LAP_COLUMNS, rows |-> rows] :
        rows \in UNION {[1..n -> LapRows] : n \in 0..MaxLaps}}

\* lines 55-63: the five columns, dropna, and a column of seconds for each
\* duration
extract_lap_times(session_laps) ==
    LET complete == {i \in 1..Len(session_laps.rows) :
                        \A k \in 1..Len(DURATION_COLUMNS) :
                            IsNum(session_laps.rows[i][DURATION_COLUMNS[k]])}
        laps == SelectRows(session_laps, complete)
        seconds == [k \in 1..Len(DURATION_COLUMNS) |-> SecondsColumn(DURATION_COLUMNS[k])]
        source(c) == DURATION_COLUMNS[CHOOSE k \in 1..Len(seconds) : seconds[k] = c]
    IN  [index |-> laps.index,
         columns |-> laps.columns \o seconds,
         rows |-> [i \in 1..Len(laps.rows) |->
                     [c \in Range(laps.columns) \cup Range(seconds) |->
                         IF c \in Range(laps.columns) THEN laps.rows[i][c]
                         ELSE Num(total_seconds(laps.rows[i][source(c)].v))]]]

CallExtract ==
    /\ l_pc = "call"
    /\ l_out' = extract_lap_times(l_laps)
    /\ l_pc' = "done"
    /\ UNCHANGED <<l_laps, adjvars, wvars, rvars, mvars,
                   nvars, gvars, xvars, tvars>>

ExtractInit ==
    /\ l_pc = "call" /\ l_laps \in SessionLaps /\ l_out = <<>>
    /\ AdjIdle /\ WIdle /\ RIdle /\ MIdle /\ NIdle /\ GIdle /\ XIdle /\ TIdle

ExtractNext == CallExtract

ExtractSpec == ExtractInit /\ [][ExtractNext]_vars

----------------------------------------------------------------------------
\* The name and code tables (model/utils.py): a lookup and the lookup back

\* the full names of DRIVER_MAPPING and a name it does not have
TableNames == {DRIVER_MAPPING[i][1] : i \in 1..Len(DRIVER_MAPPING)} \cup {"Unknown Driver"}

\* the codes of DRIVER_CODE_TO_NAME and a code it does not have
TableCodes == {DRIVER_MAPPING[i][2] : i \in 1..Len(DRIVER_MAPPING)} \cup {"ZZZ"}

TableKeys == [table : {"names"}, key : TableNames] \cup [table : {"codes"}, key : TableCodes]

\* get_driver_code(name), or get_driver_name(code)
LookUp ==
    /\ t_pc = "call"
    /\ t_image' = IF t_key.table = "names" THEN get_driver_code(t_key.key)
                  ELSE get_driver_name(t_key.key)
    /\ t_pc' = "mapped"
    /\ UNCHANGED <<t_key, t_back, adjvars, wvars, rvars, mvars,
                   nvars, gvars, xvars, lvars>>

\* get_driver_name of the code found, or get_driver_code of the name found
LookBack ==
    /\ t_pc = "mapped"
    /\ t_back' = IF t_key.table = "names" THEN get_driver_name(t_image)
                 ELSE get_driver_code(t_image)
    /\ t_pc' = "back"
    /\ UNCHANGED <<t_key, t_image, adjvars, wvars, rvars, mvars,
                   nvars, gvars, xvars, lvars>>

TableInit ==
    /\ t_pc = "call" /\ t_key \in TableKeys
    /\ t_image = NoValue /\ t_back = NoValue
    /\ AdjIdle /\ WIdle /\ RIdle /\ MIdle /\ NIdle /\ GIdle /\ XIdle /\ LIdle

TableNext == LookUp \/ LookBack

TableSpec == TableInit /\ [][TableNext]_vars

----------------------------------------------------------------------------
\* CLAIMS

\* the credential in use is None, empty or the placeholder
CredentialAbsent ==
    LET key == IF w_api_key = NoValue THEN w_env_key ELSE w_api_key
    IN  key \in {NoValue, "", "YOURAPIKEY"}

\* C1: with the default threshold the result of
\* adjust_qualifying_time_for_weather is q*f when p >= 0.75 (p = 0.75
\* included) and q otherwise.
C1_AdjustRule ==
    adj_pc = "done" =>
        /\ (adj_p >= 75 => adj_out = FMul(adj_q, adj_f))
        /\ (adj_p < 75 => adj_out = adj_q)

\* C1 witness: a call at exactly 0.75 whose result is the adjusted time
C1_Witness ==
    /\ adj_pc = "done" /\ adj_p = 75
    /\ adj_out = FMul(adj_q, adj_f) /\ adj_out # adj_q

\* the qualifying entries that have a time, in the order of the
\* configuration: entry k is the row labelled k-1
TimedEntries == SelectSeq(cfg_qualifying, LAMBDA e : e.qualifying_time.kind = "num")

\* C2: in a run whose rain probability is >= 0.75 the qualifying time in
\* column "QualifyingTime (s)" of the feature matrix is
\* qualifying_time * wet-performance factor of the driver; below 0.75 it is
\* the raw value.
C2_AdjustedTimeEntersFeatureMatrix ==
    (m_pc = "align" /\ "QualifyingTime (s)" \in Range(m_X.columns)) =>
        \A i \in 1..Len(m_X.rows) :
            LET raw == TimedEntries[m_X.index[i].i + 1].qualifying_time.v
                factor == get_wet_performance_factor(m_frame.rows[i]["DriverCode"])
            IN  m_X.rows[i]["QualifyingTime (s)"]
                  = Num(IF m_rain.v >= 75 THEN FMul(raw, factor) ELSE raw)

\* C3: a run aborts only when the configuration file is missing, the
\* historical session cannot be loaded or no driver is left after the
\* filter; a run with a configuration, a loaded session, a forecast of
\* numbers and a qualifying driver with a historical average lap time
\* does not abort.
C3_RunWithHistoricalDriverCompletes ==
    (/\ cfg_exists /\ m_exit # "training_failed"
     /\ IsNum(m_rain) /\ IsNum(m_temp)
     /\ \E i \in 1..Len(m_frame.rows) :
           m_frame.rows[i]["DriverCode"] \in m_history)
    => m_pc \notin {"exit1", "crashed"}

\* the four top-level keys and, in a predictions list, the four keys of
\* every entry
TopKeysPresent(report) ==
    {"race", "year", "predictions", "model_metadata"} \subseteq report.keys

EntryKeysPresent(report) ==
    \A i \in 1..Len(report.predictions) :
        {"driver", "predicted_time", "qualifying_time", "team"}
            \subseteq report.predictions[i].keys

WellFormed(report) ==
    /\ TopKeysPresent(report) /\ EntryKeysPresent(report)
    /\ report.predictions_is_list /\ report.metadata_is_dict

\* predictions ascending by predicted_time
SortedAscending(predictions) ==
    \A i \in 1..(Len(predictions) - 1) :
        predictions[i].predicted_time <= predictions[i + 1].predicted_time

PredictedTimesOf(predictions) ==
    [i \in 1..Len(predictions) |-> predictions[i].predicted_time]

\* C4: save_predictions_json validates before any effect on the file
\* system: a report that violates the schema makes it raise ValueError
\* with no directory created and no file written, and a file is written
\* only after validate_prediction_schema returned True.
C4_ValidateBeforeWrite ==
    /\ (fs_dir \/ fs_file.exists) => r_validated = "True"
    /\ r_pc = "raised" => ~fs_dir /\ ~fs_file.exists
    /\ (~WellFormed(r_report) /\ r_pc \in {"raised", "mkdir", "write", "saved"}) =>
         /\ r_pc = "raised" /\ r_validated = "ValueError"
         /\ ~fs_dir /\ ~fs_file.exists

\* C4 witness: a report without model_metadata was refused, nothing on disk
C4_Witness ==
    /\ r_pc = "raised"
    /\ r_report.keys = {"race", "year", "predictions"}
    /\ ~fs_dir /\ ~fs_file.exists

\* C5: validate_prediction_schema raises ValueError whenever a top-level
\* key or a key of a prediction entry is missing, and returns True for
\* every report with all keys present, predictions a list and
\* model_metadata a dict.
C5_ValidatorDecidesByKeys ==
    r_validated # "pending" =>
        /\ ~TopKeysPresent(r_report) => r_validated = "ValueError"
        /\ ~EntryKeysPresent(r_report) => r_validated = "ValueError"
        /\ WellFormed(r_report) => r_validated = "True"

\* C5 witness: all top-level keys, and an entry without "team", refused
C5_Witness ==
    /\ r_validated = "ValueError" /\ TopKeysPresent(r_report)
    /\ r_report.predictions_is_list /\ r_report.metadata_is_dict
    /\ \E i \in 1..Len(r_report.predictions) :
          r_report.predictions[i].keys =
              {"driver", "predicted_time", "qualifying_time"}

\* C6 as claimed: every report persisted by save_predictions_json has a
\* non-empty predictions list sorted ascending by predicted_time.
C6_PersistedNonEmptySorted ==
    fs_file.exists =>
        /\ Len(fs_file.content.predictions) > 0
        /\ SortedAscending(fs_file.content.predictions)

\* C6 amended: every report that format_predictions_for_json built and
\* save_predictions_json persisted has one entry per row of the frame
\* (so it is non-empty when the frame is) and is sorted ascending by
\* predicted_time.
C6_FormattedPersistedSorted ==
    (fs_file.exists /\ r_origin = "format") =>
        /\ fs_file.content = r_report
        /\ Len(fs_file.content.predictions) = Len(r_frame.rows)
        /\ SortedAscending(fs_file.content.predictions)

\* C6 witness: a frame of two rows, slowest first, persisted fastest first
C6_Witness ==
    /\ fs_file.exists /\ r_origin = "format" /\ Len(r_frame.rows) = 2
    /\ r_frame.rows[1]["PredictedRaceTime (s)"].v
         > r_frame.rows[2]["PredictedRaceTime (s)"].v
    /\ fs_file.content.predictions[1].predicted_time
         < fs_file.content.predictions[2].predicted_time

\* C7 as claimed: the predictions come out sorted ascending and in the
\* same order for every permutation of the rows, ties included.
C7_SameOrderForEveryPermutation ==
    (r_origin = "format" /\ r_pc \notin {"format", "format_permuted"}) =>
        /\ SortedAscending(r_report.predictions)
        /\ r_report.predictions = r_report2.predictions

\* C7 amended: the predictions come out sorted ascending; for every
\* permutation of the rows the sequence of predicted times is the same,
\* and the order of the entries is the same when no two rows have the same
\* predicted time.
C7_SameOrderWithoutTies ==
    (r_origin = "format" /\ r_pc \notin {"format", "format_permuted"}) =>
        /\ SortedAscending(r_report.predictions)
        /\ SortedAscending(r_report2.predictions)
        /\ PredictedTimesOf(r_report.predictions)
             = PredictedTimesOf(r_report2.predictions)
        /\ (\A i, j \in 1..Len(r_frame.rows) :
               i # j => r_frame.rows[i]["PredictedRaceTime (s)"]
                          # r_frame.rows[j]["PredictedRaceTime (s)"])
             => r_report.predictions = r_report2.predictions

\* C7 witness: two rows with different times, given in both orders, and
\* the same report for both
C7_Witness ==
    /\ r_origin = "format" /\ r_pc = "validate" /\ Len(r_frame.rows) = 2
    /\ r_frame.rows[1]["PredictedRaceTime (s)"].v
         > r_frame.rows[2]["PredictedRaceTime (s)"].v
    /\ r_frame2.rows = <<r_frame.rows[2], r_frame.rows[1]>>
    /\ r_report.predictions = r_report2.predictions

C9_RainProbabilityInRange ==
    w_pc = "returned" =>
        /\ IsNum(w_result[1]) /\ IsNum(w_result[2])
        /\ w_result[1].v >= 0 /\ w_result[1].v <= 100

\* C10 as claimed: with the credential absent the resolver returns
\* (0.0, 20.0) and no qualifying time is adjusted, whatever the threshold.
C10_NoAdjustmentAnyThreshold ==
    (CredentialAbsent /\ w_pc = "adjusted") =>
        w_result = FALLBACK /\ w_adjusted = w_q

\* C10 amended: with the credential absent the resolver returns
\* (0.0, 20.0); the adjustment then leaves the time unchanged for every
\* threshold above 0, and multiplies it by the factor for a threshold <= 0
\* (the rain probability 0.0 meets such a threshold).
C10_NoAdjustmentPositiveThreshold ==
    CredentialAbsent =>
        /\ w_pc \notin {"request", "process", "raised", "adjust_raised"}
        /\ w_pc \in {"returned", "adjusted"} => w_result = FALLBACK
        /\ w_pc = "adjusted" =>
             /\ (w_threshold > 0 => w_adjusted = w_q)
             /\ (w_threshold <= 0 => w_adjusted = FMul(w_q, w_f))

\* C10 witness: no credential, the default threshold, the time unchanged
C10_Witness ==
    /\ CredentialAbsent /\ w_pc = "adjusted" /\ w_threshold = 75
    /\ w_result = FALLBACK /\ w_adjusted = w_q

\* C11: a qualifying driver who is missing from the historical lap data
\* still appears in the report: the drivers of the frame that is scored and
\* reported (qualifying_2025 after line 172) are all the qualifying
\* drivers that have a time.
C11_ReportCoversQualifyingSet ==
    m_pc \in {"features", "align"} =>
        {m_frame.rows[i]["Driver_x"] : i \in 1..Len(m_frame.rows)}
            = {TimedEntries[k].driver : k \in 1..Len(TimedEntries)}

\* C16: once y is built (line 184), X is selected by y's index labels and
\* the two go to train_gradient_boosting_model with the same length and
\* the same labels row by row.
C16_TrainingInputsAligned ==
    m_y # <<>> =>
        /\ m_pc = "train"
        /\ Len(m_X.rows) = Len(m_y)
        /\ \A i \in 1..Len(m_y) : m_X.index[i] = m_y[i]

\* C12: normalize_driver_names never raises, and afterwards every row has
\* a non-empty DriverCode: the table code of a known full name, the value
\* itself otherwise (an existing code, an unrecognized string), also in
\* frames that mix names and codes.
C12_NormalizeTotal ==
    n_pc \in {"done", "raised"} =>
        /\ n_pc = "done" /\ n_raised = "none"
        /\ Len(n_out.rows) = Len(n_frame.rows)
        /\ \A i \in 1..Len(n_out.rows) :
              LET driver == n_frame.rows[i]["Driver"]
                  code == n_out.rows[i]["DriverCode"]
              IN  /\ code # ""
                  /\ code # NoValue
                  /\ \A k \in 1..Len(DRIVER_MAPPING) :
                        DRIVER_MAPPING[k][1] = driver => code = DRIVER_MAPPING[k][2]
                  /\ (\A k \in 1..Len(DRIVER_MAPPING) : DRIVER_MAPPING[k][1] # driver)
                        => code = driver

\* C13: the matrix handed to model.predict has exactly the columns
\* feature_names, in that order, and no missing value; a name of
\* feature_names that X does not have is a column of 0.0.
C13_PredictMatrixHasFeatureNames ==
    g_pc \in {"predicted", "raised"} =>
        /\ g_matrix.columns = g_feature_names
        /\ \A i \in 1..Len(g_matrix.rows) : \A c \in Range(g_matrix.columns) :
              /\ IsNum(g_matrix.rows[i][c])
              /\ c \notin Range(g_X.columns) => g_matrix.rows[i][c] = Num(0)

\* no cell of the matrix is a gap
NoMissingValue(X) ==
    \A i \in 1..Len(X.rows) : \A c \in Range(X.columns) : ~IsMissing(X, i, c)

\* C14: create_feature_matrix applied with the same feature list to its
\* own output returns the same matrix, and its output has no missing
\* value.
C14_ImputationIdempotent ==
    /\ x_pc \in {"built", "rebuilt"} => NoMissingValue(x_X)
    /\ x_pc = "rebuilt" => x_X2 = x_X

\* C14 witness: a frame with a gap in a listed column, filled in the
\* matrix, and the matrix of the matrix equal to it
C14_Witness ==
    /\ x_pc = "rebuilt" /\ x_X2 = x_X /\ Len(x_X.rows) = 2
    /\ x_features = <<"QualifyingTime (s)">>
    /\ ~IsNum(x_frame.rows[1]["QualifyingTime (s)"])
    /\ x_X.rows[1]["QualifyingTime (s)"] = x_frame.rows[2]["QualifyingTime (s)"]
    /\ IsNum(x_X.rows[1]["QualifyingTime (s)"])

\* m is the median of the values xs: the middle one of an odd number, the
\* mean of the two middle ones of an even number
IsMedian(m, xs) ==
    LET n == Len(xs)
        below(v) == Cardinality({k \in 1..n : xs[k] < v})
        above(v) == Cardinality({k \in 1..n : xs[k] > v})
    IN  \E a, b \in 1..n :
           /\ xs[a] <= xs[b] /\ 2 * m = xs[a] + xs[b]
           /\ (n % 2 = 1 => a = b /\ 2 * below(xs[a]) < n /\ 2 * above(xs[a]) < n)
           /\ (n % 2 = 0 => /\ a # b
                            /\ below(xs[a]) < n \div 2 /\ above(xs[b]) < n \div 2
                            /\ below(xs[b]) + above(xs[a]) >= n - 2
                            /\ 2 * below(m) <= n /\ 2 * above(m) <= n)

\* C17: create_feature_matrix returns the listed features that are columns
\* of the frame, in the order of the list and under the frame's labels; a
\* present value is unchanged; a gap of a numeric column holds the median
\* of the column's present values, or 0 when it has none; a gap of a
\* column of strings holds 0.
C17_MatrixColumnsAndFill ==
    x_pc \in {"built", "rebuilt"} =>
        /\ x_X.columns = SelectSeq(x_features, LAMBDA f : f \in Range(MATRIX_COLUMNS))
        /\ x_X.index = x_frame.index
        /\ Len(x_X.rows) = Len(x_frame.rows)
        /\ \A i \in 1..Len(x_X.rows) : \A c \in Range(x_X.columns) :
              LET given == x_frame.rows[i][c]
                  got == x_X.rows[i][c]
                  values == {x_frame.rows[k][c] : k \in 1..Len(x_frame.rows)}
              IN  IF c = "Team"
                  THEN got = (IF given = NaNValue THEN ZeroValue ELSE given)
                  ELSE IF IsNum(given) THEN got = given
                  ELSE /\ IsNum(got)
                       /\ IF values = {None} THEN got.v = 0
                          ELSE IsMedian(got.v, ColumnValues(x_frame, c))

\* C17 witness: three rows with the times 90, a gap and 94: the gap holds
\* 92, and the feature the frame does not have is not a column
C17_Witness ==
    /\ x_pc = "built" /\ Len(x_frame.rows) = 3
    /\ x_features = <<"CleanAirRacePace (s)", "SeasonPoints", "QualifyingTime (s)">>
    /\ x_X.columns = <<"CleanAirRacePace (s)", "QualifyingTime (s)">>
    /\ x_frame.rows[1]["QualifyingTime (s)"] = Num(Sec(90))
    /\ x_frame.rows[2]["QualifyingTime (s)"] = None
    /\ x_frame.rows[3]["QualifyingTime (s)"] = Num(Sec(94))
    /\ x_X.rows[2]["QualifyingTime (s)"] = Num(Sec(92))
    /\ \A i \in 1..3 : x_frame.rows[i]["CleanAirRacePace (s)"] = None
    /\ \A i \in 1..3 : x_X.rows[i]["CleanAirRacePace (s)"] = Num(0)

\* C15: for a report the core persisted, the serving layer republishes one
\* entry per entry of the report's predictions list, with that entry's
\* driver, predicted time and team.
C15_ServedEntriesMatchReport ==
    (api_response.served /\ fs_file.exists /\ r_origin = "format") =>
        /\ api_response.found
        /\ Len(api_response.predictions) = Len(fs_file.content.predictions)
        /\ \A i \in 1..Len(api_response.predictions) :
              LET served == api_response.predictions[i]
                  entry == fs_file.content.predictions[i]
              IN  /\ served.driver = entry.driver
                  /\ served.predicted_race_time = entry.predicted_time
                  /\ served.team = entry.team

\* C18: in a report built by format_predictions_for_json every entry's
\* driver is the display name of a row's driver code, or the code when the
\* table has no name for it, and its team is that row's team, else the
\* team of the code, else "Unknown"; neither is a missing value.
C18_DriverAndTeamResolved ==
    (r_origin = "format" /\ r_pc \notin {"format"}) =>
        /\ Len(r_report.predictions) = Len(r_frame.rows)
        /\ \A i \in 1..Len(r_report.predictions) :
              LET entry == r_report.predictions[i]
              IN  /\ entry.team \notin {NoValue, NaNValue, ""}
                  /\ entry.driver \notin {NoValue, NaNValue, ""}
                  /\ \E k \in 1..Len(r_frame.rows) :
                        LET code == r_frame.rows[k]["DriverCode"]
                            team == r_frame.rows[k]["Team"]
                        IN  /\ entry.predicted_time
                                 = r_frame.rows[k]["PredictedRaceTime (s)"].v
                            /\ entry.driver
                                 = (IF get_driver_name(code) # NoValue
                                    THEN get_driver_name(code) ELSE code)
                            /\ entry.team
                                 = (IF team \notin {NoValue, NaNValue} THEN team
                                    ELSE IF get_team(code) # NoValue THEN get_team(code)
                                    ELSE "Unknown")

\* C19: the table returned by extract_lap_times has no two identical lap
\* rows and no lap with a missing duration in a required column.
C19_LapsDeduplicatedAndComplete ==
    l_pc = "done" =>
        /\ \A i, j \in 1..Len(l_out.rows) : i # j => l_out.rows[i] # l_out.rows[j]
        /\ \A i \in 1..Len(l_out.rows) : \A k \in 1..Len(DURATION_COLUMNS) :
              /\ IsNum(l_out.rows[i][DURATION_COLUMNS[k]])
              /\ IsNum(l_out.rows[i][SecondsColumn(DURATION_COLUMNS[k])])

\* the positions of a name, and of a code, in DRIVER_MAPPING
NamePositions(name) == {i \in 1..Len(DRIVER_MAPPING) : DRIVER_MAPPING[i][1] = name}

CodePositions(code) == {i \in 1..Len(DRIVER_MAPPING) : DRIVER_MAPPING[i][2] = code}

\* C20 as claimed: for every full name n of the name table
\* get_driver_name(get_driver_code(n)) = n, and for every code c of the
\* code table get_driver_code(get_driver_name(c)) = c.
C20_TablesRoundTrip ==
    (t_pc = "back" /\ t_image # NoValue) => t_back = t_key.key

\* C20 amended: for every code c of the code table
\* get_driver_code(get_driver_name(c)) = c; for every full name n of the
\* name table get_driver_name(get_driver_code(n)) is the last name the
\* table lists for the code of n, which is n unless a later name has the
\* same code.
C20_RoundTripUpToAlias ==
    (t_pc = "back" /\ t_image # NoValue) =>
        /\ t_key.table = "codes" => t_back = t_key.key
        /\ t_key.table = "names" =>
              \E i \in CodePositions(t_image) :
                 /\ t_back = DRIVER_MAPPING[i][1]
                 /\ \A j \in CodePositions(t_image) : j <= i
                 /\ \E k \in NamePositions(t_key.key) : k <= i
                 /\ (\A k \in NamePositions(t_key.key) :
                        \A j \in CodePositions(t_image) : j <= k)
                      => t_back = t_key.key

\* C20 witness: "Carlos Sainz" comes back as "Carlos Sainz Jr."
C20_Witness ==
    /\ t_pc = "back" /\ t_key = [table |-> "names", key |-> "Carlos Sainz"]
    /\ t_image = "SAI" /\ t_back = "Carlos Sainz Jr."

====
